---- MODULE Spec2Model ----
(***************************************************************************)
(* Model of the mtx <-> npz converters: the argument validation, the mode  *)
(* and path resolution of common.Converter (duplicated as module functions *)
(* in mtx_to_npz.py) and the conversion driver with its three convert_file *)
(* variants.  Path strings are sequences of one-character strings, so that *)
(* os.path.split / join / splitext and the glob of do_conversion are       *)
(* modelled by what they do to the characters.                             *)
(***************************************************************************)
EXTENDS Integers, Sequences, FiniteSets, TLC

VARIABLES conv, args, fs, pc, mode, skip, source_path, target_path,
          source_paths, idx, err, calls, attempts, run

vars == <<conv, args, fs, pc, mode, skip, source_path, target_path,
          source_paths, idx, err, calls, attempts, run>>

-----------------------------------------------------------------------------
(* Strings *)

sep == "/"
extsep == "."

EmptyStr == << >>

\* str.endswith
EndsWith(s, suf) ==
    /\ Len(s) >= Len(suf)
    /\ SubSeq(s, Len(s) - Len(suf) + 1, Len(s)) = suf

\* str.startswith
StartsWith(s, pre) ==
    /\ Len(s) >= Len(pre)
    /\ SubSeq(s, 1, Len(pre)) = pre

\* str.rfind(c) + 1: the last position of c in s, 0 when there is none
RFind(s, c) ==
    LET at == {i \in 1..Len(s) : s[i] = c}
    IN  IF at = {} THEN 0 ELSE CHOOSE i \in at : \A j \in at : j <= i

\* str.rstrip(c)
RStrip(s, c) ==
    LET keep == {i \in 1..Len(s) : s[i] # c}
    IN  IF keep = {} THEN EmptyStr
        ELSE SubSeq(s, 1, CHOOSE i \in keep : \A j \in keep : j <= i)

AllSeps(s) == \A i \in 1..Len(s) : s[i] = sep

\* posixpath.split: <<head, tail>>, the head without its trailing slashes
\* unless it is made of slashes only
Split(p) ==
    LET i    == RFind(p, sep)
        head == SubSeq(p, 1, i)
        tail == SubSeq(p, i + 1, Len(p))
    IN  IF head # EmptyStr /\ ~AllSeps(head)
        THEN <<RStrip(head, sep), tail>>
        ELSE <<head, tail>>

\* posixpath.basename
Basename(p) == SubSeq(p, RFind(p, sep) + 1, Len(p))

\* posixpath.join of two parts
Join(a, b) ==
    IF StartsWith(b, <<sep>>) THEN b
    ELSE IF a = EmptyStr \/ EndsWith(a, <<sep>>) THEN a \o b
    ELSE a \o <<sep>> \o b

\* posixpath.splitext: <<root, ext>>; the dots that lead the file name do
\* not start an extension
Splitext(p) ==
    LET sepIndex == RFind(p, sep)
        dotIndex == RFind(p, extsep)
    IN  IF /\ dotIndex > sepIndex
           /\ \E k \in (sepIndex + 1)..(dotIndex - 1) : p[k] # extsep
        THEN <<SubSeq(p, 1, dotIndex - 1), SubSeq(p, dotIndex, Len(p))>>
        ELSE <<p, EmptyStr>>

-----------------------------------------------------------------------------
(* Converters *)

MtxExt == <<".", "m", "t", "x">>
NpzExt == <<".", "n", "p", "z">>

\* mtx_to_npz.py (module functions), DenseMtxToNpzConverter, DenseNpzToMtxConverter
Converters == {"mtx_to_npz", "dense_mtx_to_npz", "dense_npz_to_mtx"}

source_ext(c) == IF c = "dense_npz_to_mtx" THEN NpzExt ELSE MtxExt
target_ext(c) == IF c = "dense_npz_to_mtx" THEN MtxExt ELSE NpzExt

ExecutionMode ==
    {"file_in_place", "file_to_dir", "file_to_file", "all_in_place", "all_to_dir"}

BatchModes == {"all_in_place", "all_to_dir"}

\* A target that was not given is None or the empty string: both are falsy
Given(t) == t # EmptyStr

-----------------------------------------------------------------------------
(* The filesystem.  fs maps a location (the sequence of the names that lead  *)
(* to it from the root, which is also the working directory) to "dir" or to  *)
(* the content of a file: "orig" for a file that was there before the run,   *)
(* "conv" for a file an encoder wrote completely, "partial" for what a       *)
(* failed encoder left behind.                                               *)

RECURSIVE Names(_)
\* the names of a path string, in order
Names(s) ==
    IF s = EmptyStr THEN << >>
    ELSE LET i    == RFind(s, sep)
             last == SubSeq(s, i + 1, Len(s))
             rest == Names(SubSeq(s, 1, i - 1))
         IN  IF i = 0 THEN <<s>>
             ELSE IF last = EmptyStr THEN rest
             ELSE Append(rest, last)

Kind(f, loc) ==
    IF loc = << >> THEN "dir"
    ELSE IF loc \notin DOMAIN f THEN "none"
    ELSE IF f[loc] = "dir" THEN "dir"
    ELSE "file"

Nowhere == [ok |-> FALSE, loc |-> << >>]

RECURSIVE Walk(_, _, _)
\* path resolution from the location loc along names: every name is looked
\* up in a directory, "." stays and ".." goes up
Walk(f, loc, names) ==
    IF names = << >> THEN [ok |-> TRUE, loc |-> loc]
    ELSE IF Kind(f, loc) # "dir" THEN Nowhere
    ELSE IF Head(names) = <<".">> THEN Walk(f, loc, Tail(names))
    ELSE IF Head(names) = <<".", ".">>
         THEN Walk(f, IF loc = << >> THEN loc ELSE SubSeq(loc, 1, Len(loc) - 1),
                   Tail(names))
    ELSE Walk(f, Append(loc, Head(names)), Tail(names))

\* where a path string leads: absolute and relative paths both start at the
\* root, the working directory
Locate(f, s) ==
    IF s = EmptyStr THEN Nowhere ELSE Walk(f, << >>, Names(s))

\* what stat finds at a path: "dir", "file" or "none"; a path with a trailing
\* slash finds directories only
Stat(f, s) ==
    LET at == Locate(f, s)
        k  == IF at.ok THEN Kind(f, at.loc) ELSE "none"
    IN  IF EndsWith(s, <<sep>>) /\ k = "file" THEN "none" ELSE k

\* os.path.isdir
isdir(f, s) == Stat(f, s) = "dir"

\* os.path.isfile
isfile(f, s) == Stat(f, s) = "file"

\* os.path.lexists
lexists(f, s) == Stat(f, s) # "none"

\* os.scandir: the names directly inside the directory at s (none when s is
\* no directory); the empty string is the working directory
listdir(f, s) ==
    IF s # EmptyStr /\ ~isdir(f, s) THEN {}
    ELSE LET here == IF s = EmptyStr THEN << >> ELSE Locate(f, s).loc
         IN  {l[Len(l)] : l \in {m \in DOMAIN f :
                 Len(m) = Len(here) + 1 /\ SubSeq(m, 1, Len(m) - 1) = here}}

-----------------------------------------------------------------------------
(* glob.glob *)

Magic == {"*", "?", "["}

has_magic(s) == \E i \in 1..Len(s) : s[i] \in Magic

ishidden(name) == StartsWith(name, <<".">>)

RECURSIVE fnmatch(_, _)
\* fnmatch.fnmatchcase for patterns of literals, "*" and "?"
fnmatch(name, pat) ==
    IF pat = EmptyStr THEN name = EmptyStr
    ELSE IF Head(pat) = "*"
         THEN \/ fnmatch(name, Tail(pat))
              \/ name # EmptyStr /\ fnmatch(Tail(name), pat)
    ELSE /\ name # EmptyStr
         /\ Head(pat) = "?" \/ Head(pat) = Head(name)
         /\ fnmatch(Tail(name), Tail(pat))

\* glob._glob1: the names in a directory that match, the hidden ones left out
\* unless the pattern itself starts with a dot
glob1(f, dirname, pattern, dironly) ==
    {n \in listdir(f, dirname) :
        /\ dironly => isdir(f, Join(dirname, n))
        /\ ishidden(pattern) \/ ~ishidden(n)
        /\ fnmatch(n, pattern)}

\* glob._glob0
glob0(f, dirname, basename) ==
    IF basename # EmptyStr
    THEN IF lexists(f, Join(dirname, basename)) THEN {basename} ELSE {}
    ELSE IF isdir(f, dirname) THEN {basename} ELSE {}

RECURSIVE iglob(_, _, _)
\* glob._iglob: the set of the paths that match pathname
iglob(f, pathname, dironly) ==
    LET dirname  == Split(pathname)[1]
        basename == Split(pathname)[2]
    IN  IF ~has_magic(pathname)
        THEN IF basename # EmptyStr
             THEN IF lexists(f, pathname) THEN {pathname} ELSE {}
             ELSE IF isdir(f, dirname) THEN {pathname} ELSE {}
        ELSE IF dirname = EmptyStr
        THEN glob1(f, EmptyStr, basename, dironly)
        ELSE LET dirs == IF dirname # pathname /\ has_magic(dirname)
                         THEN iglob(f, dirname, TRUE)
                         ELSE {dirname}
             IN  UNION {{Join(d, n) :
                            n \in IF has_magic(basename)
                                  THEN glob1(f, d, basename, dironly)
                                  ELSE glob0(f, d, basename)} : d \in dirs}

\* the orders in which a listing can come out: all of them
Orderings(S) ==
    {q \in [1..Cardinality(S) -> S] : \A e \in S : \E i \in DOMAIN q : q[i] = e}

-----------------------------------------------------------------------------
(* Mode resolver *)

NoError == [type |-> "none", arg |-> EmptyStr]

Raised(t, a) == [type |-> t, arg |-> a]

\* a bug to compare with: a directory accepted as the source of a request
\* that is not recursive
validate_args_recursive_only(a, f) ==
    IF a.recursive /\ ~isdir(f, a.source)
    THEN Raised("NotADirectoryError", a.source)
    ELSE IF a.recursive /\ Given(a.target) /\ ~isdir(f, a.target)
    THEN Raised("NotADirectoryError", a.target)
    ELSE NoError

\* a bug to compare with: the target of a recursive request left unchecked
validate_args_without_target(a, f) ==
    IF a.recursive /\ ~isdir(f, a.source)
    THEN Raised("NotADirectoryError", a.source)
    ELSE IF isdir(f, a.source) /\ ~a.recursive
    THEN Raised("NotADirectoryError", a.source)
    ELSE NoError

\* validate_args: the exception it raises, NoError when it returns
validate_args_raises(a, f) ==
    IF a.recursive /\ ~isdir(f, a.source)
    THEN Raised("NotADirectoryError", a.source)
    ELSE IF a.recursive /\ Given(a.target) /\ ~isdir(f, a.target)
    THEN Raised("NotADirectoryError", a.target)
    ELSE IF isdir(f, a.source) /\ ~a.recursive
    THEN Raised("NotADirectoryError", a.source)
    ELSE NoError

\* a bug to compare with: a recursive request with a target that is no
\* directory taken for one without a target
get_mode_dir_targets_only(a, f) ==
    LET m == IF a.recursive
             THEN IF Given(a.target) /\ isdir(f, a.target)
                  THEN "all_to_dir" ELSE "all_in_place"
             ELSE IF Given(a.target)
                  THEN IF isdir(f, a.target) THEN "file_to_dir" ELSE "file_to_file"
                  ELSE "file_in_place"
    IN  <<m, a.skip>>

\* get_mode: <<mode, skip>>
get_mode_of(a, f) ==
    LET m == IF a.recursive
             THEN IF Given(a.target) THEN "all_to_dir" ELSE "all_in_place"
             ELSE IF Given(a.target)
                  THEN IF isdir(f, a.target) THEN "file_to_dir" ELSE "file_to_file"
                  ELSE "file_in_place"
    IN  <<m, a.skip>>

None == [none |-> TRUE, name |-> EmptyStr]
Some(n) == [none |-> FALSE, name |-> n]

\* the file name get_paths gives a single converted file: the source's file
\* name with its extension replaced
stem_name(c, a) == Splitext(Basename(a.source))[1] \o target_ext(c)

\* a bug to compare with: the check of the file name left out
file_to_file_appends_always(c, a) ==
    [source_dir      |-> Split(a.source)[1],
     source_filename |-> Some(Split(a.source)[2]),
     target_dir      |-> Split(a.target)[1],
     target_filename |-> Some(Split(a.target)[2] \o target_ext(c))]

\* a bug to compare with: the target file name taken as given
file_to_file_as_given(c, a) ==
    [source_dir      |-> Split(a.source)[1],
     source_filename |-> Some(Split(a.source)[2]),
     target_dir      |-> Split(a.target)[1],
     target_filename |-> Some(Split(a.target)[2])]

\* get_paths, the branch of file_to_file
file_to_file(c, a) ==
    LET target_filename == Split(a.target)[2]
    IN  [source_dir      |-> Split(a.source)[1],
         source_filename |-> Some(Split(a.source)[2]),
         target_dir      |-> Split(a.target)[1],
         target_filename |-> Some(IF ~EndsWith(target_filename, target_ext(c))
                                  THEN target_filename \o target_ext(c)
                                  ELSE target_filename)]

\* get_paths, the branch of file_to_dir
file_to_dir(c, a) ==
    [source_dir      |-> Split(a.source)[1],
     source_filename |-> Some(Split(a.source)[2]),
     target_dir      |-> a.target,
     target_filename |-> Some(stem_name(c, a))]

\* a bug to compare with: the source itself taken for its directory
file_in_place_under_source(c, a) ==
    [source_dir      |-> a.source,
     source_filename |-> None,
     target_dir      |-> a.source,
     target_filename |-> Some(stem_name(c, a))]

\* get_paths, the branch of file_in_place
file_in_place(c, a) ==
    [source_dir      |-> a.source,
     source_filename |-> None,
     target_dir      |-> Split(a.source)[1],
     target_filename |-> Some(stem_name(c, a))]

\* get_paths, the branch of all_to_dir
all_to_dir(c, a) ==
    [source_dir      |-> a.source,
     source_filename |-> None,
     target_dir      |-> a.target,
     target_filename |-> None]

\* get_paths, the branch of all_in_place
all_in_place(c, a) ==
    [source_dir      |-> a.source,
     source_filename |-> None,
     target_dir      |-> a.source,
     target_filename |-> None]

\* get_paths: [source_path, target_path] for a converter, a request and a mode
get_paths_of(c, a, m) ==
    LET l == CASE m = "file_to_file"  -> file_to_file(c, a)
               [] m = "file_to_dir"   -> file_to_dir(c, a)
               [] m = "file_in_place" -> file_in_place(c, a)
               [] m = "all_to_dir"    -> all_to_dir(c, a)
               [] m = "all_in_place"  -> all_in_place(c, a)
    IN  [source_path |-> IF l.source_filename.none THEN l.source_dir
                         ELSE Join(l.source_dir, l.source_filename.name),
         target_path |-> IF l.target_filename.none THEN l.target_dir
                         ELSE Join(l.target_dir, l.target_filename.name)]

-----------------------------------------------------------------------------
(* External codecs.  scipy.io.mmread / numpy.load read a matrix, and        *)
(* scipy.sparse.save_npz / numpy.savez / scipy.io.mmwrite write one; the    *)
(* writers append their extension to a file name that lacks it.             *)

\* can the decoder open the source at all
decode_can_read(f, source) == isfile(f, source)

\* the file an encoder creates for a target path
encode_file(c, target) ==
    IF EndsWith(target, target_ext(c)) THEN target ELSE target \o target_ext(c)

\* an encoder can create its file where the directory exists and the name is
\* not taken by a directory
encode_can_write(f, c, target) ==
    LET file == encode_file(c, target)
    IN  /\ Basename(file) # EmptyStr
        /\ Split(file)[1] = EmptyStr \/ isdir(f, Split(file)[1])
        /\ ~isdir(f, file)

\* the filesystem with content put at a path
Write(f, path, content) ==
    [loc \in DOMAIN f \cup {Locate(f, path).loc} |->
        IF loc = Locate(f, path).loc THEN content ELSE f[loc]]

-----------------------------------------------------------------------------
(* The requests and the filesystems a run starts from *)

\* the most entries of the source directory d, and of the target directory out
MaxEntries == 3
MaxOutEntries == 1

nD   == <<"d">>
nOut == <<"o", "u", "t">>
nQ   == <<"?">>
nSub == <<"s">>

Named(stem, ext) == stem \o ext

\* what d may hold next to its subdirectory s: sources of both directions,
\* a file of another kind and a hidden source
DNames ==
    {Named(<<"x">>, MtxExt), Named(<<"y">>, MtxExt), Named(<<"x">>, NpzExt),
     Named(<<"y">>, NpzExt), <<"z", ".", "t", "x", "t">>, Named(<<".", "h">>, MtxExt)}

\* what out may hold
OutNames ==
    {Named(<<"x">>, MtxExt), Named(<<"y">>, MtxExt), Named(<<"x">>, NpzExt),
     Named(<<"y">>, NpzExt)}

\* always there: the directories d, d/s, out and "?", a source of each
\* direction in d/s, and in "?" a source named like one that d may hold
FixedDirs == {<<nD>>, <<nD, nSub>>, <<nOut>>, <<nQ>>}

FixedFiles ==
    {<<nD, nSub, Named(<<"w">>, MtxExt)>>, <<nD, nSub, Named(<<"w">>, NpzExt)>>,
     <<nQ, Named(<<"x">>, MtxExt)>>}

Filesystems ==
    {[loc \in FixedDirs \cup FixedFiles \cup {<<nD, n>> : n \in ds}
                \cup {<<nOut, n>> : n \in os} |->
         IF loc \in FixedDirs THEN "dir" ELSE "orig"] :
       ds \in {S \in SUBSET DNames : Cardinality(S) <= MaxEntries},
       os \in {S \in SUBSET OutNames : Cardinality(S) <= MaxOutEntries}}

\* the source arguments: d, d/, the directory "?", d/x.mtx, d/x.npz
Sources ==
    {nD, nD \o <<sep>>, nQ,
     nD \o <<sep>> \o Named(<<"x">>, MtxExt),
     nD \o <<sep>> \o Named(<<"x">>, NpzExt)}

\* the target arguments: none, out, out/, t, out/x.npz, n/t
Targets ==
    {EmptyStr, nOut, nOut \o <<sep>>, <<"t">>,
     nOut \o <<sep>> \o Named(<<"x">>, NpzExt), <<"n", sep, "t">>}

Requests ==
    [source : Sources, target : Targets, recursive : BOOLEAN, skip : BOOLEAN]

Init ==
    /\ conv \in Converters
    /\ args \in Requests
    /\ fs \in Filesystems
    /\ pc = "validate_args"
    /\ mode = "none"
    /\ skip = FALSE
    /\ source_path = EmptyStr
    /\ target_path = EmptyStr
    /\ source_paths = << >>
    /\ idx = 0
    /\ err = NoError
    /\ calls = << >>
    /\ attempts = << >>
    /\ run = 1

-----------------------------------------------------------------------------
(* main: validate_args, get_mode, get_paths, do_conversion *)

\* a bug to compare with: the error logged and the run going on
validate_args_goes_on ==
    /\ pc = "validate_args"
    /\ err' = validate_args_raises(args, fs)
    /\ pc' = "get_mode"
    /\ UNCHANGED <<run, conv, args, fs, mode, skip, source_path, target_path,
                   source_paths, idx, calls, attempts>>

validate_args ==
    /\ pc = "validate_args"
    /\ err' = validate_args_raises(args, fs)
    /\ pc' = IF err'.type = "none" THEN "get_mode" ELSE "failed"
    /\ UNCHANGED <<run, conv, args, fs, mode, skip, source_path, target_path,
                   source_paths, idx, calls, attempts>>

get_mode ==
    /\ pc = "get_mode"
    /\ mode' = get_mode_of(args, fs)[1]
    /\ skip' = get_mode_of(args, fs)[2]
    /\ pc' = "get_paths"
    /\ UNCHANGED <<run, conv, args, fs, source_path, target_path, source_paths, idx,
                   err, calls, attempts>>

get_paths ==
    /\ pc = "get_paths"
    /\ source_path' = get_paths_of(conv, args, mode).source_path
    /\ target_path' = get_paths_of(conv, args, mode).target_path
    /\ pc' = "do_conversion"
    /\ UNCHANGED <<run, conv, args, fs, mode, skip, source_paths, idx, err, calls,
                   attempts>>

Attempt(s, t, o) == [source |-> s, target |-> t, outcome |-> o]
Call(op, path) == [op |-> op, path |-> path]

\* a bug to compare with: the failure logged and the caller going on
existing_target_goes_on(source, target, next) ==
    /\ attempts' = Append(attempts,
                          Attempt(source, target, IF skip THEN "skipped" ELSE "exists"))
    /\ err' = IF skip THEN err ELSE Raised("FileExistsError", target)
    /\ pc' = next
    /\ UNCHANGED <<fs, calls>>

\* convert_file where the target is a file already: skip it, or fail
existing_target(source, target, next) ==
    IF skip
    THEN /\ attempts' = Append(attempts, Attempt(source, target, "skipped"))
         /\ pc' = next
         /\ UNCHANGED <<fs, err, calls>>
    ELSE /\ attempts' = Append(attempts, Attempt(source, target, "exists"))
         /\ err' = Raised("FileExistsError", target)
         /\ pc' = "failed"
         /\ UNCHANGED <<fs, calls>>

\* convert_file past its check: load the matrix, then save it
load_and_save(source, target, next) ==
    \/ \* the decoder fails: no source file, or not a matrix
       /\ calls' = Append(calls, Call("decode", source))
       /\ attempts' = Append(attempts, Attempt(source, target, "decode_failed"))
       /\ err' = Raised(IF decode_can_read(fs, source) THEN "CodecError"
                        ELSE "FileNotFoundError", source)
       /\ pc' = "failed"
       /\ UNCHANGED fs
    \/ \* decoded and encoded
       /\ decode_can_read(fs, source)
       /\ encode_can_write(fs, conv, target)
       /\ calls' = calls \o <<Call("decode", source), Call("encode", target)>>
       /\ attempts' = Append(attempts, Attempt(source, target, "converted"))
       /\ fs' = Write(fs, encode_file(conv, target), "conv")
       /\ pc' = next
       /\ UNCHANGED err
    \/ \* decoded, and the encoder fails, leaving nothing or a partial file
       /\ decode_can_read(fs, source)
       /\ calls' = calls \o <<Call("decode", source), Call("encode", target)>>
       /\ attempts' = Append(attempts, Attempt(source, target, "encode_failed"))
       /\ err' = Raised("CodecError", target)
       /\ pc' = "failed"
       /\ \/ UNCHANGED fs
          \/ /\ encode_can_write(fs, conv, target)
             /\ fs' = Write(fs, encode_file(conv, target), "partial")

\* a bug to compare with: no look at the target before the conversion
convert_file_unchecked(source, target, next) ==
    load_and_save(source, target, next)

\* convert_file(source, target, skip), going to next when it returns
convert_file(source, target, next) ==
    IF isfile(fs, target)
    THEN existing_target(source, target, next)
    ELSE load_and_save(source, target, next)

\* what do_conversion hands to glob.glob
glob_pattern(c, dir) == Join(dir, <<"*">> \o source_ext(c))

\* do_conversion in a batch mode: list the sources and enter convert_files
do_conversion_all ==
    /\ pc = "do_conversion"
    /\ mode \in BatchModes
    /\ source_paths' \in Orderings(iglob(fs, glob_pattern(conv, source_path), FALSE))
    /\ idx' = 1
    /\ pc' = IF source_paths' = << >> THEN "done" ELSE "convert_files"
    /\ UNCHANGED <<run, conv, args, fs, mode, skip, source_path, target_path, err,
                   calls, attempts>>

\* do_conversion in a single-file mode
do_conversion_file ==
    /\ pc = "do_conversion"
    /\ mode \notin BatchModes
    /\ convert_file(source_path, target_path, "done")
    /\ UNCHANGED <<run, conv, args, mode, skip, source_path, target_path,
                   source_paths, idx>>

\* a bug to compare with: the target put beside its source
files_target_beside_source(c, source, target_dir) ==
    LET source_filename == Basename(source)
        target_filename == Splitext(source_filename)[1] \o target_ext(c)
    IN  Join(Split(source)[1], target_filename)

\* the target path convert_files derives for a source
files_target(c, source, target_dir) ==
    LET source_filename == Basename(source)
        target_filename == Splitext(source_filename)[1] \o target_ext(c)
    IN  Join(target_dir, target_filename)

\* one turn of the loop of convert_files
convert_files ==
    /\ pc = "convert_files"
    /\ convert_file(source_paths[idx], files_target(conv, source_paths[idx], target_path),
                    IF idx = Len(source_paths) THEN "done" ELSE "convert_files")
    /\ idx' = IF pc' = "failed" THEN idx ELSE idx + 1
    /\ UNCHANGED <<run, conv, args, mode, skip, source_path, target_path, source_paths>>

Next ==
    \/ validate_args
    \/ get_mode
    \/ get_paths
    \/ do_conversion_all
    \/ do_conversion_file
    \/ convert_files

Spec == Init /\ [][Next]_vars

-----------------------------------------------------------------------------
(* The program run a second time: the same source, target and recursive     *)
(* option, with or without --skip, on the filesystem the first run left.    *)

rerun ==
    /\ pc = "done"
    /\ run = 1
    /\ run' = 2
    /\ \E again \in BOOLEAN : args' = [args EXCEPT !.skip = again]
    /\ pc' = "validate_args"
    /\ mode' = "none"
    /\ skip' = FALSE
    /\ source_path' = EmptyStr
    /\ target_path' = EmptyStr
    /\ source_paths' = << >>
    /\ idx' = 0
    /\ err' = NoError
    /\ calls' = << >>
    /\ attempts' = << >>
    /\ UNCHANGED <<conv, fs>>

NextRerun ==
    \/ validate_args
    \/ get_mode
    \/ get_paths
    \/ do_conversion_all
    \/ do_conversion_file
    \/ convert_files
    \/ rerun

RerunSpec == Init /\ [][NextRerun]_vars

-----------------------------------------------------------------------------
(* The mode resolver as functions of any request: get_mode and get_paths    *)
(* applied without validate_args before them, to path strings put together  *)
(* from pieces, on a filesystem whose only directory is a.                   *)

\* the most pieces of a source argument and of a target argument
MaxSourcePieces == 4
MaxTargetPieces == 3

SourcePieces == {<<sep>>, <<"a">>, <<extsep>>, MtxExt, NpzExt}
TargetPieces == {<<sep>>, <<"a">>, <<extsep>>, MtxExt, NpzExt, <<".", "N", "P", "Z">>}

RECURSIVE Concats(_, _)
\* the strings made of at most n pieces
Concats(P, n) ==
    IF n = 0 THEN {EmptyStr}
    ELSE LET shorter == Concats(P, n - 1)
         IN  shorter \cup {s \o q : s \in shorter, q \in P}

ResolverFs == [loc \in {<<(<<"a">>)>>} |-> "dir"]

\* a/a.mtx and /a//a.npz
FewSources ==
    {<<"a", sep, "a">> \o MtxExt, <<sep, "a", sep, sep, "a">> \o NpzExt}

\* no target, the directory a, the new file a/a
FewTargets == {EmptyStr, <<"a">>, <<"a", sep, "a">>}

InitResolver ==
    /\ conv \in Converters
    /\ \/ /\ args \in [source : Concats(SourcePieces, MaxSourcePieces) \ {EmptyStr},
                       target : FewTargets, recursive : BOOLEAN, skip : BOOLEAN]
       \/ /\ args \in [source : FewSources,
                       target : Concats(TargetPieces, MaxTargetPieces),
                       recursive : BOOLEAN, skip : BOOLEAN]
    /\ fs = ResolverFs
    /\ pc = "get_mode"
    /\ mode = "none"
    /\ skip = FALSE
    /\ source_path = EmptyStr
    /\ target_path = EmptyStr
    /\ source_paths = << >>
    /\ idx = 0
    /\ err = NoError
    /\ calls = << >>
    /\ attempts = << >>
    /\ run = 1

\* get_paths applied to its own result: the paths it returned are given as
\* the source and (where one was given) the target of the request
get_paths_again ==
    /\ pc = "do_conversion"
    /\ args' = [args EXCEPT !.source = source_path,
                            !.target = IF Given(args.target) THEN target_path
                                       ELSE args.target]
    /\ source_path' = get_paths_of(conv, args', mode).source_path
    /\ target_path' = get_paths_of(conv, args', mode).target_path
    /\ pc' = "again"
    /\ UNCHANGED <<run, conv, fs, mode, skip, source_paths, idx, err, calls, attempts>>

NextResolver ==
    \/ get_mode
    \/ get_paths
    \/ get_paths_again

ResolverSpec == InitResolver /\ [][NextResolver]_vars

-----------------------------------------------------------------------------
(* Properties *)

SourceIsDir == isdir(fs, args.source)
TargetIsDir == isdir(fs, args.target)

\* the three cases in which validate_args is to fail
Mismatch ==
    \/ args.recursive /\ ~SourceIsDir
    \/ args.recursive /\ Given(args.target) /\ ~TargetIsDir
    \/ SourceIsDir /\ ~args.recursive

\* C1: once validate_args has run, it has raised NotADirectoryError exactly
\* when recursive is set and the source is no directory, or recursive is set
\* and a given target is no directory, or the source is a directory and
\* recursive is not set; in every other case it has returned normally.
C1_ValidateFailsExactlyOnMismatch ==
    pc # "validate_args" =>
        /\ (err.type = "NotADirectoryError") <=> Mismatch
        /\ (pc = "failed" /\ attempts = << >>) <=> Mismatch
        /\ pc = "get_mode" => err = NoError

\* validate_args has refused a recursive request whose source is a directory
\* and whose target is an existing file, not a directory
C1_Witness ==
    /\ pc = "failed"
    /\ err.type = "NotADirectoryError"
    /\ args.recursive /\ SourceIsDir
    /\ isfile(fs, args.target)
    /\ err.arg = args.target

\* the decision table of get_mode
ModeTable(recursive, target_given, target_is_dir) ==
    CASE recursive /\ target_given                       -> "all_to_dir"
      [] recursive /\ ~target_given                      -> "all_in_place"
      [] ~recursive /\ target_given /\ target_is_dir     -> "file_to_dir"
      [] ~recursive /\ target_given /\ ~target_is_dir    -> "file_to_file"
      [] ~recursive /\ ~target_given                     -> "file_in_place"

\* C2: for every request, validated or not, the mode get_mode returned is
\* the one the decision table gives for (recursive, target given, target is
\* an existing directory), it is one of the five modes, the skip it returned
\* is the skip of the request, and get_mode computed again on the same
\* request and filesystem gives the same mode.
C2_ModeTable ==
    pc \in {"get_paths", "do_conversion"} =>
        /\ mode = ModeTable(args.recursive, Given(args.target), TargetIsDir)
        /\ mode \in ExecutionMode
        /\ skip = args.skip
        /\ get_mode_of(args, fs) = <<mode, skip>>

\* get_mode has answered all_to_dir for a recursive request whose target is
\* given and is no directory
C2_Witness ==
    /\ pc = "get_paths"
    /\ mode = "all_to_dir"
    /\ Given(args.target) /\ ~TargetIsDir
    /\ skip

\* a path with the slashes that stand directly before its file name written
\* as one slash, unless nothing but slashes stands before the file name
Tidy(p) ==
    LET i    == RFind(p, sep)
        solid == {j \in 1..i : p[j] # sep}
    IN  IF solid = {} THEN p
        ELSE SubSeq(p, 1, CHOOSE j \in solid : \A k \in solid : k <= j)
             \o <<sep>> \o SubSeq(p, i + 1, Len(p))

\* the target with the extension appended unless its file name ends with it
WithExt(t, ext) == IF EndsWith(Basename(t), ext) THEN t ELSE t \o ext

ResolvedOnce == pc = "do_conversion"

\* the request is one that validate_args accepts, and its source has a file
\* name
Accepted ==
    /\ validate_args_raises(args, fs) = NoError
    /\ Basename(args.source) # EmptyStr

\* C3 as stated: in mode file_to_file, for a request that validate_args
\* accepts, the source path is the source as given and the target path is
\* the target as given, with the target extension appended exactly when the
\* target's file name does not end with it.
C3_AsGiven ==
    ResolvedOnce /\ Accepted /\ mode = "file_to_file" =>
        /\ source_path = args.source
        /\ target_path = WithExt(args.target, target_ext(conv))

\* C3, amended: in mode file_to_file the source path is the source as given
\* and the target path is the target as given with the target extension
\* appended exactly when the target's file name does not end with it, both
\* with a run of slashes before the file name written as a single slash; a
\* path without such a run is returned as given; the target path ends with
\* the extension just once more than the given file name did not, and
\* get_paths applied to its own result returns it unchanged.
C3_FileToFile ==
    /\ ResolvedOnce /\ mode = "file_to_file" =>
          /\ source_path = Tidy(args.source)
          /\ target_path = Tidy(WithExt(args.target, target_ext(conv)))
          /\ Tidy(args.source) # args.source =>
                \E i \in 1..(Len(args.source) - 1) :
                    args.source[i] = sep /\ args.source[i + 1] = sep
          /\ EndsWith(args.target, target_ext(conv)) =>
                Len(target_path) <= Len(args.target)
    /\ pc = "again" /\ mode = "file_to_file" =>
          /\ source_path = args.source
          /\ target_path = args.target

\* get_paths has left a target alone that already ends with the extension,
\* in a directory
C3_Witness ==
    /\ ResolvedOnce /\ mode = "file_to_file"
    /\ EndsWith(args.target, target_ext(conv))
    /\ Len(Basename(args.target)) > Len(target_ext(conv))
    /\ Split(args.target)[1] # EmptyStr
    /\ target_path = args.target

\* the file name of the source without its extension
Stem(p) == Splitext(Basename(p))[1]

-----------------------------------------------------------------------------
(* Properties of the conversion driver *)

Last(q) == q[Len(q)]

\* the content of the file at a path
Content(f, path) == f[Locate(f, path).loc]

\* this step is a call of convert_file
Called == Len(attempts') = Len(attempts) + 1

\* C5: for each of the three converters, a call of convert_file whose target
\* path is an existing file makes no decode and no encode call and leaves
\* the filesystem, the target included, as it is; with skip it returns
\* normally, without skip it raises FileExistsError naming the target path.
C5_ExistingTargetUntouched ==
    [][Called /\ isfile(fs, Last(attempts').target) =>
          /\ calls' = calls
          /\ fs' = fs
          /\ skip => /\ Last(attempts').outcome = "skipped"
                     /\ err' = err /\ err'.type = "none"
                     /\ pc' \in {"convert_files", "done"}
          /\ ~skip => /\ Last(attempts').outcome = "exists"
                      /\ err' = Raised("FileExistsError", Last(attempts').target)
                      /\ pc' = "failed"]_vars

\* the dense npz to mtx converter has skipped a source whose target was there
\* before the run, and the target has its old content
C5_Witness ==
    /\ conv = "dense_npz_to_mtx"
    /\ attempts # << >>
    /\ Last(attempts).outcome = "skipped"
    /\ isfile(fs, Last(attempts).target)
    /\ Content(fs, Last(attempts).target) = "orig"
    /\ calls = << >>

\* the batch has been listed and no file has been tried yet
Listed == mode \in BatchModes /\ pc \in {"convert_files", "done"} /\ attempts = << >>

\* the entries directly inside the source path whose name ends with ext
DirectSources(f, dir, ext) ==
    {Append(Locate(f, dir).loc, n) : n \in {m \in listdir(f, dir) : EndsWith(m, ext)}}

\* C6 as stated: in the batch modes the sources handed to the single-file
\* path are exactly the entries directly inside source_path whose name ends
\* with the source extension, each of them once.
C6_ExactlyTheDirectSources ==
    Listed =>
        /\ {Locate(fs, source_paths[i]).loc : i \in 1..Len(source_paths)}
              = DirectSources(fs, source_path, source_ext(conv))
        /\ \A i, j \in 1..Len(source_paths) :
              source_paths[i] = source_paths[j] => i = j

\* C7: when do_conversion is entered after a validation that passed, a batch
\* mode means that the source is an existing directory and that the target,
\* if one was given, is an existing directory, and a single-file mode means
\* that the source is no existing directory.
C7_BatchModeIffDirectory ==
    pc = "do_conversion" =>
        /\ mode \in ExecutionMode
        /\ mode \in BatchModes =>
              /\ SourceIsDir
              /\ Given(args.target) => TargetIsDir
        /\ mode \notin BatchModes => ~SourceIsDir
        /\ mode \in BatchModes <=> SourceIsDir

\* do_conversion is entered in mode all_to_dir with two directories
C7_Witness ==
    /\ pc = "do_conversion"
    /\ mode = "all_to_dir"
    /\ SourceIsDir /\ TargetIsDir

\* the steps of a run, in order
Order ==
    {<<"validate_args", "get_mode">>, <<"validate_args", "failed">>,
     <<"get_mode", "get_paths">>, <<"get_paths", "do_conversion">>,
     <<"do_conversion", "convert_files">>, <<"do_conversion", "done">>,
     <<"do_conversion", "failed">>, <<"convert_files", "convert_files">>,
     <<"convert_files", "done">>, <<"convert_files", "failed">>}

\* C8: every step of a run follows the order validate_args, get_mode,
\* get_paths, do_conversion; the mode is computed only by get_mode, the paths
\* only by get_paths, and codec calls and writes happen only in
\* do_conversion; when validate_args raises, the run ends there, with no
\* mode, no path, no codec call and the filesystem as it was.
C8_ValidateFirstAndFatal ==
    [][/\ <<pc, pc'>> \in Order
       /\ mode' # mode => pc = "get_mode"
       /\ (source_path' # source_path \/ target_path' # target_path) => pc = "get_paths"
       /\ (calls' # calls \/ fs' # fs \/ attempts' # attempts) =>
              pc \in {"do_conversion", "convert_files"}
       /\ pc = "validate_args" /\ err'.type # "none" =>
              /\ pc' = "failed"
              /\ mode' = "none"
              /\ source_path' = EmptyStr /\ target_path' = EmptyStr
              /\ calls' = << >> /\ attempts' = << >>
              /\ fs' = fs]_vars

\* a run has ended in validate_args, which refused a directory given
\* without the recursive option, with nothing computed or written
C8_Witness ==
    /\ pc = "failed"
    /\ err = Raised("NotADirectoryError", args.source)
    /\ ~args.recursive
    /\ mode = "none" /\ source_path = EmptyStr /\ target_path = EmptyStr
    /\ calls = << >> /\ attempts = << >>
    /\ fs \in Filesystems

Failures == {"exists", "decode_failed", "encode_failed"}

\* C9: in a batch the sources are tried in the order of the listing; a try
\* that fails (the target exists and skip is not set, or a codec fails) is
\* the last one: the run has failed with that error, no later source is
\* decoded or written, and the targets written before have their converted
\* content.  Without skip every try before the failing one converted, so the
\* try that raised FileExistsError is the first whose target existed.  With
\* skip an existing target is never a failure, and a run that ends without a
\* failure has tried every source of the listing.
C9_BatchStopsAtFirstFailure ==
    mode \in BatchModes =>
        /\ Len(attempts) <= Len(source_paths)
        /\ \A i \in 1..Len(attempts) :
              /\ attempts[i].source = source_paths[i]
              /\ attempts[i].outcome \in Failures =>
                    /\ i = Len(attempts)
                    /\ pc = "failed"
                    /\ err.type # "none"
              /\ attempts[i].outcome = "exists" =>
                    /\ ~skip
                    /\ err = Raised("FileExistsError", attempts[i].target)
              /\ attempts[i].outcome = "skipped" => skip
              /\ ~skip /\ i < Len(attempts) => attempts[i].outcome = "converted"
              /\ attempts[i].outcome = "converted" =>
                    /\ isfile(fs, attempts[i].target)
                    /\ Content(fs, attempts[i].target) = "conv"
        /\ \A k \in 1..Len(calls) :
              \E i \in 1..Len(attempts) :
                  calls[k].path \in {attempts[i].source, attempts[i].target}
        /\ pc = "failed" /\ attempts # << >> => Last(attempts).outcome \in Failures
        /\ pc = "done" => Len(attempts) = Len(source_paths)
        /\ pc = "convert_files" => idx = Len(attempts) + 1 /\ err.type = "none"

\* a batch without skip has converted a source, has then failed on a source
\* whose target exists, and has left a source of the listing untried
C9_Witness ==
    /\ mode \in BatchModes /\ ~skip
    /\ pc = "failed"
    /\ err.type = "FileExistsError"
    /\ Len(attempts) >= 2
    /\ attempts[1].outcome = "converted"
    /\ Len(source_paths) > Len(attempts)

\* the directory convert_files is to put the targets in
BatchDir == IF mode = "all_to_dir" THEN args.target ELSE args.source

\* a directory and a file name, joined as a path
Under(dir, name) ==
    IF dir # EmptyStr /\ dir[Len(dir)] = sep THEN dir \o name
    ELSE dir \o <<sep>> \o name

\* the name of a listed source without the source extension it ends with
ListedStem(c, path) ==
    SubSeq(Basename(path), 1, Len(Basename(path)) - Len(source_ext(c)))

\* C10: in the batch modes get_paths returns the source directory and the
\* target directory (the source directory again in all_in_place) as given,
\* and convert_files calls convert_file for the sources of the listing in
\* order, once each when no call fails, with the target path made of that
\* directory, the stem of the source's file name and the target extension.
C10_OneCallPerSource ==
    mode \in BatchModes /\ pc \in {"do_conversion", "convert_files", "done", "failed"} =>
        /\ source_path = args.source
        /\ target_path = BatchDir
        /\ Len(attempts) <= Len(source_paths)
        /\ \A i \in 1..Len(attempts) :
              /\ attempts[i].source = source_paths[i]
              /\ attempts[i].target =
                    Under(BatchDir, ListedStem(conv, source_paths[i]) \o target_ext(conv))
        /\ pc = "done" => Len(attempts) = Len(source_paths)

\* a batch into a target directory has called convert_file for each of its
\* two sources and is done
C10_Witness ==
    /\ mode = "all_to_dir"
    /\ pc = "done"
    /\ Len(source_paths) = 2
    /\ Len(attempts) = 2
    /\ attempts[1].outcome = "converted" /\ attempts[2].outcome = "converted"

-----------------------------------------------------------------------------
(* Properties of a second run *)

\* every target path given to convert_file ends with the target extension
TargetsEndWithExt ==
    \A i \in 1..Len(attempts) : EndsWith(attempts[i].target, target_ext(conv))

\* what holds of a second run whatever its skip: no codec call, every call
\* of convert_file found its target, and with skip none of them failed
SecondRunIdle ==
    run = 2 =>
        /\ calls = << >>
        /\ \A i \in 1..Len(attempts) : attempts[i].outcome \in {"skipped", "exists"}
        /\ args.skip => pc # "failed" /\ err = NoError
        /\ ~args.skip /\ attempts # << >> =>
              /\ Len(attempts) = 1
              /\ pc = "failed"
              /\ err = Raised("FileExistsError", attempts[1].target)

\* C11 as stated: after a run that completed without error, a second run of
\* the request with skip makes no codec call and changes no file, and a
\* second run without skip fails with FileExistsError on the first target it
\* checks, before any codec call or write: it never completes.  Every target
\* path given to convert_file ends with the target extension.
C11_AsStated ==
    [][/\ TargetsEndWithExt'
       /\ SecondRunIdle'
       /\ run = 2 => fs' = fs
       /\ run' = 2 /\ ~args'.skip => pc' # "done"]_vars

\* C11, amended: as stated, but a second run without skip fails with
\* FileExistsError only if it checks a target at all: a batch whose listing
\* is empty completes again, with no call of convert_file.
C11_RerunIdempotent ==
    [][/\ TargetsEndWithExt'
       /\ SecondRunIdle'
       /\ run = 2 => fs' = fs
       /\ run' = 2 /\ ~args'.skip /\ pc' = "done" =>
              /\ mode' \in BatchModes
              /\ source_paths' = << >>
              /\ attempts' = << >>
       /\ run' = 2 /\ pc' = "done" /\ mode' \notin BatchModes => args'.skip]_vars

\* a second run with skip of a batch has skipped both of its sources, whose
\* targets the first run wrote
C11_Witness ==
    /\ run = 2
    /\ pc = "done"
    /\ args.skip
    /\ mode \in BatchModes
    /\ Len(attempts) = 2
    /\ \A i \in 1..2 : /\ attempts[i].outcome = "skipped"
                       /\ Content(fs, attempts[i].target) = "conv"
    /\ calls = << >>

-----------------------------------------------------------------------------
(* Properties of the targets of one batch *)

\* the target path convert_files gives to the i-th source of the listing
BatchTarget(i) == files_target(conv, source_paths[i], target_path)

\* something was at the path before the run: the run makes no directory, and
\* a file it wrote has the content "conv" or "partial"
ExistedBefore(f, path) ==
    \/ isdir(f, path)
    \/ isfile(f, path) /\ Content(f, path) = "orig"

\* none of the targets derived for the listing was there before the run
FreshTargets ==
    \A i \in 1..Len(source_paths) : ~ExistedBefore(fs, BatchTarget(i))

\* distinct listed sources have distinct targets, and no target is a source
DistinctTargets ==
    \A i, j \in 1..Len(source_paths) :
        /\ i # j => BatchTarget(i) # BatchTarget(j)
        /\ BatchTarget(i) # source_paths[j]

\* no call of convert_file found its target existing
NoneFound ==
    \A i \in 1..Len(attempts) : attempts[i].outcome \notin {"skipped", "exists"}

\* C12 as stated: within one batch run, distinct listed sources are given
\* distinct target paths and no target path equals a source path of the
\* batch; when none of the derived targets exists before the run, no call of
\* convert_file finds its target already existing (no FileExistsError and no
\* skip), and no file that existed before the run is overwritten.
C12_NoCollision ==
    [][(mode \in BatchModes) =>
          (/\ DistinctTargets
           /\ FreshTargets => NoneFound'
           /\ \A loc \in DOMAIN fs : (fs[loc] = "orig" => fs'[loc] = "orig"))]_vars

====
